---- MODULE Spec2Model ----
(***************************************************************************)
(* Model of the game server in server/index.ts together with the player    *)
(* registry in services/PlayerManager.ts.                                  *)
(*                                                                         *)
(* One action per socket.io event handler.  The JavaScript event loop runs *)
(* a handler to its first real suspension point, so each action is one     *)
(* such run.  The only suspension point is the HTTP request made by        *)
(* AIService.getResponse inside startNewRound: the part of start_round     *)
(* before it is the action StartRound, the part after it is AIReplies.     *)
(* JavaScript Maps are sequences of entries in insertion order.            *)
(* Wall-clock reads (startTime, timestamp) are left out: no branch of the  *)
(* code reads them back.                                                   *)
(***************************************************************************)
EXTENDS Integers, Sequences, FiniteSets, TLC

VARIABLES
    sockets,       \* connection state of every socket id
    players,       \* PlayerManager.players (Map, insertion order)
    aiPlayer,      \* PlayerManager.aiPlayer
    currentRound,  \* GameManager.currentRound
    nextId,        \* the next token uuidv4() hands out
    calls,         \* startNewRound calls suspended in the AI request
    out,           \* the events emitted by the last handler run
    hist,          \* history of the current round (see History)
    ret            \* what the last direct call of a method returned

vars == <<sockets, players, aiPlayer, currentRound, nextId, calls, out, hist, ret>>

-----------------------------------------------------------------------------
(* Bounds of the model *)

MaxRounds == 2
MaxInFlight == 1

(* Program constants *)

MAX_REAL_PLAYERS == 16
AI_ID == "ai-player"
AI_NAME == "AI Player"
FALLBACK == "I love pizza with extra cheese and crispy crust."

(* Inputs *)

\* socket.io gives every connection a fresh id: the model names the ids in
\* the order in which they connect
SocketSeq == <<"s1", "s2">>
SocketIds == {SocketSeq[i] : i \in DOMAIN SocketSeq}
RoundIds == 1..MaxRounds
Names == {"Ann"}
Prompts == {"food"}
Texts == {"a", "b"}
VoteTargets == {AI_ID, "s1"}
Guesses == {TRUE}
ReplyTexts == {" hi "}

(* What the AI endpoint can do with one request.  "neterr": the request    *)
(* fails; "status": a reply whose status is not 2xx; "badjson": a body     *)
(* that is not JSON; "nofield": JSON without a response field; "ok": JSON  *)
(* with a response text.                                                   *)
Outcomes ==
    {[kind |-> k, response |-> ""] : k \in {"neterr", "status", "badjson", "nofield"}}
    \cup {[kind |-> "ok", response |-> t] : t \in ReplyTexts}

-----------------------------------------------------------------------------
(* null *)

NoPlayer == [id |-> "", name |-> "", isAI |-> FALSE, isReady |-> FALSE, connected |-> FALSE]
NoRound == [roundId |-> 0, prompt |-> "", responses |-> <<>>, votes |-> <<>>, isComplete |-> FALSE]

-----------------------------------------------------------------------------
(* JavaScript Map, as a sequence of entries [k, v] in insertion order *)

MapHas(m, k) == \E i \in 1..Len(m) : m[i].k = k

MapGet(m, k, dflt) ==
    IF MapHas(m, k)
    THEN m[CHOOSE i \in 1..Len(m) : m[i].k = k].v
    ELSE dflt

\* a set that never looks for the key
MapSetAppend(m, k, v) == Append(m, [k |-> k, v |-> v])

\* Map.prototype.set: an existing key keeps its place and takes the value
MapSet(m, k, v) ==
    IF MapHas(m, k)
    THEN [i \in 1..Len(m) |-> IF m[i].k = k THEN [k |-> k, v |-> v] ELSE m[i]]
    ELSE Append(m, [k |-> k, v |-> v])

\* a delete that also drops every entry inserted after the key
MapDeleteTail(m, k) ==
    IF \E i \in 1..Len(m) : m[i].k = k
    THEN SubSeq(m, 1, (CHOOSE i \in 1..Len(m) : m[i].k = k) - 1)
    ELSE m

\* Map.prototype.delete
MapDelete(m, k) == SelectSeq(m, LAMBDA e : e.k # k)

\* Array.from(map.values())
MapValues(m) == [i \in 1..Len(m) |-> m[i].v]

\* map.size
MapSize(m) == Len(m)

-----------------------------------------------------------------------------
(* String.prototype.trim, for blanks *)

RECURSIVE TrimStart(_)
TrimStart(s) ==
    IF Len(s) > 0 /\ SubSeq(s, 1, 1) = " " THEN TrimStart(SubSeq(s, 2, Len(s))) ELSE s

RECURSIVE TrimEnd(_)
TrimEnd(s) ==
    IF Len(s) > 0 /\ SubSeq(s, Len(s), Len(s)) = " "
    THEN TrimEnd(SubSeq(s, 1, Len(s) - 1))
    ELSE s

Trim(s) == TrimEnd(TrimStart(s))

-----------------------------------------------------------------------------
(* AIService.getResponse, from the point where the request settles.        *)
(* threw: the promise rejects; value: what it resolves to.                 *)

\* without the catch: a failed request rejects the promise
GetResponseNoCatch(o) ==
    IF o.kind = "ok"
    THEN [threw |-> FALSE, value |-> Trim(o.response)]
    ELSE [threw |-> TRUE, value |-> ""]

GetResponse(o) ==
    IF o.kind = "ok"
    THEN [threw |-> FALSE, value |-> Trim(o.response)]
    ELSE [threw |-> FALSE, value |-> FALLBACK]

-----------------------------------------------------------------------------
(* PlayerManager *)

GetPlayer(ps, id) == MapGet(ps, id, NoPlayer)

GetAllPlayers(ps) == MapValues(ps)

GetRealPlayerCount(ps) == Len(SelectSeq(MapValues(ps), LAMBDA p : ~p.isAI))

CanAddPlayer(ps) == GetRealPlayerCount(ps) < MAX_REAL_PLAYERS

NewPlayer(id, name) ==
    [id |-> id, name |-> name, isAI |-> FALSE, isReady |-> FALSE, connected |-> TRUE]

AddPlayer(ps, id, name) == MapSet(ps, id, NewPlayer(id, name))

NewAIPlayer ==
    [id |-> AI_ID, name |-> AI_NAME, isAI |-> TRUE, isReady |-> TRUE, connected |-> TRUE]

\* initializeAIPlayer: the players map after it (aiPlayer becomes NewAIPlayer)
InitializeAIPlayer(ps) == MapSet(ps, NewAIPlayer.id, NewAIPlayer)

\* a remove that takes the AI player out with the last human
RemovePlayerAndIdleAI(ps, id) ==
    IF \E i \in 1..Len(ps) : ps[i].k # id /\ ~ps[i].v.isAI
    THEN MapDelete(ps, id)
    ELSE <<>>

RemovePlayer(ps, id) == MapDelete(ps, id)

HasAIPlayer(ai) == ai # NoPlayer

\* updatePlayerStatus: the players map after it
UpdatePlayerStatus(ps, id, isReady) ==
    [i \in 1..Len(ps) |->
        IF ps[i].k = id THEN [ps[i] EXCEPT !.v.isReady = isReady] ELSE ps[i]]

-----------------------------------------------------------------------------
(* GameManager.  An operation that can throw returns [threw, round].       *)

NewRound(roundId, prompt) ==
    [roundId |-> roundId, prompt |-> prompt, responses |-> <<>>, votes |-> <<>>,
     isComplete |-> FALSE]

NewResponse(p, text) ==
    [playerId |-> p.id, playerName |-> p.name, response |-> text, isAI |-> p.isAI]

\* a set that does not look whether there is a round to take the response
AddResponseUnguarded(round, playerId, response) ==
    [threw |-> FALSE,
     round |-> [round EXCEPT !.responses = MapSet(@, playerId, response)]]

AddResponse(round, playerId, response) ==
    IF round = NoRound \/ round.isComplete
    THEN [threw |-> TRUE, round |-> round]
    ELSE [threw |-> FALSE,
          round |-> [round EXCEPT !.responses = MapSet(@, playerId, response)]]

NewVote(voterId, votedPlayerId, isAIGuess) ==
    [voterId |-> voterId, votedPlayerId |-> votedPlayerId, isAIGuess |-> isAIGuess]

\* a set that does not look whether there is a round
AddVoteUnguarded(round, vote) ==
    [threw |-> FALSE, round |-> [round EXCEPT !.votes = MapSet(@, vote.voterId, vote)]]

AddVote(round, vote) ==
    IF round = NoRound
    THEN [threw |-> TRUE, round |-> round]
    ELSE [threw |-> FALSE, round |-> [round EXCEPT !.votes = MapSet(@, vote.voterId, vote)]]

\* a check that wants the two counts equal
CheckRoundCompleteExact(round, ps) ==
    IF round = NoRound THEN FALSE
    ELSE MapSize(round.responses) = Len(GetAllPlayers(ps))

CheckRoundComplete(round, ps) ==
    IF round = NoRound THEN FALSE
    ELSE MapSize(round.responses) >= Len(GetAllPlayers(ps))

\* a threshold that counts the AI player among the voters
CheckVotingCompleteAll(round, ps) ==
    IF round = NoRound THEN FALSE
    ELSE MapSize(round.votes) >= Len(GetAllPlayers(ps))

CheckVotingComplete(round, ps) ==
    IF round = NoRound THEN FALSE
    ELSE MapSize(round.votes) >= Len(SelectSeq(GetAllPlayers(ps), LAMBDA p : ~p.isAI))

\* a vote counts as correct whenever it names the AI player
VoteIsCorrectByTarget(vote, ai) == vote.votedPlayerId = ai.id

VoteIsCorrect(vote, ai) ==
    \/ vote.votedPlayerId = ai.id /\ vote.isAIGuess
    \/ vote.votedPlayerId # ai.id /\ ~vote.isAIGuess

GetVoteResults(round, ai) ==
    IF round = NoRound \/ ai = NoPlayer
    THEN [threw |-> TRUE, value |-> [correct |-> 0, total |-> 0, aiPlayer |-> ""]]
    ELSE [threw |-> FALSE,
          value |-> [correct |-> Len(SelectSeq(MapValues(round.votes),
                                               LAMBDA v : VoteIsCorrect(v, ai))),
                     total |-> Len(MapValues(round.votes)),
                     aiPlayer |-> ai.name]]

\* a summary that leaves the AI player's response out
SummaryWithoutAI(round, voteResults) ==
    [roundId |-> round.roundId, prompt |-> round.prompt,
     responses |-> SelectSeq(MapValues(round.responses), LAMBDA r : ~r.isAI),
     voteResults |-> voteResults]

Summary(round, voteResults) ==
    [roundId |-> round.roundId, prompt |-> round.prompt,
     responses |-> MapValues(round.responses), voteResults |-> voteResults]

\* a completeRound that returns the summary and leaves the round unmarked
CompleteRoundUnmarked(round, ai) ==
    LET vr == GetVoteResults(round, ai) IN
    [threw |-> round # NoRound /\ vr.threw, isNull |-> round = NoRound, round |-> round,
     summary |-> Summary(round, vr.value)]

\* a completeRound that refuses a round that is already complete
CompleteRoundOnce(round, ai) ==
    LET vr == GetVoteResults(round, ai) IN
    IF round = NoRound
    THEN [threw |-> FALSE, isNull |-> TRUE, round |-> round,
          summary |-> Summary(round, vr.value)]
    ELSE [threw |-> vr.threw \/ round.isComplete, isNull |-> FALSE,
          round |-> IF vr.threw THEN round ELSE [round EXCEPT !.isComplete = TRUE],
          summary |-> Summary(round, vr.value)]

\* completeRound: [threw, isNull, round, summary]; the summary counts only
\* when it neither threw nor returned null
CompleteRound(round, ai) ==
    LET vr == GetVoteResults(round, ai) IN
    IF round = NoRound
    THEN [threw |-> FALSE, isNull |-> TRUE, round |-> round,
          summary |-> Summary(round, vr.value)]
    ELSE IF vr.threw
    THEN [threw |-> TRUE, isNull |-> FALSE, round |-> round,
          summary |-> Summary(round, vr.value)]
    ELSE [threw |-> FALSE, isNull |-> FALSE,
          round |-> [round EXCEPT !.isComplete = TRUE],
          summary |-> Summary(round, vr.value)]

\* a reset that empties the round and leaves it in the slot
ResetRoundEmptied(round) == [round EXCEPT !.responses = <<>>, !.votes = <<>>]

\* the handler forgets to reset: the completed round stays in the slot
ResetRoundForgotten(round) == round

ResetRound(round) == NoRound

-----------------------------------------------------------------------------
(* Events.  to: "all" for io.emit, the socket id for socket.emit.  roundId  *)
(* on responses_revealed is not part of the payload: it records which round *)
(* was current when the event was emitted.                                  *)

EvConnectionRejected(s) == [type |-> "connection_rejected", to |-> s]
EvAIPlayerJoined(p) == [type |-> "ai_player_joined", to |-> "all", player |-> p]
EvPlayersUpdate(ps) == [type |-> "players_update", to |-> "all", players |-> GetAllPlayers(ps)]
EvRegistrationSuccessful(s, name) ==
    [type |-> "registration_successful", to |-> s, id |-> s, name |-> name]
EvRoundStarted(roundId, prompt) ==
    [type |-> "round_started", to |-> "all", roundId |-> roundId, prompt |-> prompt]
EvResponseReceived(p) ==
    [type |-> "response_received", to |-> "all", playerId |-> p.id, playerName |-> p.name]
EvResponsesRevealed(round) ==
    [type |-> "responses_revealed", to |-> "all", roundId |-> round.roundId,
     responses |-> MapValues(round.responses)]
EvGameComplete(summary) ==
    [type |-> "game_complete", to |-> "all", roundId |-> summary.roundId, summary |-> summary]
EvPlayerLeft(s) == [type |-> "player_left", to |-> "all", id |-> s]
\* the error goes to every client
EvErrorToAll(s, message) == [type |-> "error", to |-> "all", message |-> message]

EvError(s, message) == [type |-> "error", to |-> s, message |-> message]

Emitted(o, type) == \E i \in 1..Len(o) : o[i].type = type

EmittedFor(o, type, roundId) ==
    \E i \in 1..Len(o) : o[i].type = type /\ o[i].roundId = roundId

-----------------------------------------------------------------------------
(* History of the round that is current: which of its events were emitted  *)
(* and what was accepted into it.  last: the latest accepted response of    *)
(* every player; complete: how often its game_complete was emitted; lost:   *)
(* a response accepted into the round was later                             *)
(* replaced by a different one; votes: the latest accepted vote of every    *)
(* voter.                                                                   *)

\* counts stop at 2: "more than once"
Sat(n) == IF n > 2 THEN 2 ELSE n

NoHist ==
    [roundId |-> 0, started |-> FALSE, revealed |-> FALSE, complete |-> 0,
     last |-> {}, lost |-> FALSE, votes |-> {}]

\* the history of round: h, or a new one when h is of another round
Of(h, round) == IF h.roundId = round.roundId THEN h ELSE [NoHist EXCEPT !.roundId = round.roundId]

\* a response accepted into round
Accept(h, round, response) ==
    [Of(h, round) EXCEPT
        !.last = {r \in @ : r.playerId # response.playerId} \cup {response},
        !.lost = @ \/ \E r \in Of(h, round).last :
                          r.playerId = response.playerId /\ r # response]

\* a vote accepted into round
AcceptVote(h, round, vote) ==
    [Of(h, round) EXCEPT !.votes = {v \in @ : v.voterId # vote.voterId} \cup {vote}]

\* the events o of a handler run that left round in the slot
Record(h, round, o) ==
    LET g == IF round = NoRound THEN h ELSE Of(h, round)
    IN [g EXCEPT
          !.started = @ \/ EmittedFor(o, "round_started", g.roundId),
          !.revealed = @ \/ EmittedFor(o, "responses_revealed", g.roundId),
          !.complete = IF EmittedFor(o, "game_complete", g.roundId) THEN Sat(@ + 1) ELSE @]

\* the history is kept while its round is current, and in the state in
\* which its game_complete is emitted
Keep(h, round, o) ==
    IF h.roundId # 0 /\ (round.roundId = h.roundId \/ EmittedFor(o, "game_complete", h.roundId))
    THEN h
    ELSE NoHist

\* what every handler run leaves behind: the round slot, the events it
\* emitted and the history
Done(round, o, h) ==
    /\ currentRound' = round
    /\ out' = o
    /\ hist' = Keep(Record(h, round, o), round, o)
    /\ ret' = ret

-----------------------------------------------------------------------------
(* A method called directly, not from a handler.  ret holds the method's    *)
(* name, whether it threw, the value it returned, and n: how many calls of  *)
(* that method came in a row.  The handlers leave ret alone.                *)

NoValue == [void |-> TRUE]
NoRet == [op |-> "", n |-> 0, threw |-> FALSE, value |-> NoValue]

Returned(op, threw, value) ==
    [op |-> op, n |-> IF ret.op = op THEN Sat(ret.n + 1) ELSE 1,
     threw |-> threw, value |-> value]

-----------------------------------------------------------------------------
(* State *)

TypeOK ==
    /\ sockets \in [DOMAIN sockets -> {"fresh", "open", "closed"}]
    /\ nextId \in 1..(MaxRounds + 1)
    /\ Cardinality(calls) <= MaxInFlight
    /\ \A c \in calls : c.roundId \in RoundIds /\ c.stage \in {"fetch", "stalled"}

Init ==
    /\ sockets = [s \in SocketIds |-> "fresh"]
    /\ players = <<>>
    /\ aiPlayer = NoPlayer
    /\ currentRound = NoRound
    /\ nextId = 1
    /\ calls = {}
    /\ out = <<>>
    /\ hist = NoHist
    /\ ret = NoRet

-----------------------------------------------------------------------------
(* io.on('connection') *)

Connect(s) ==
    /\ sockets[s] = "fresh"
    /\ \A i \in DOMAIN SocketSeq :
          SocketSeq[i] = s => \A j \in 1..(i - 1) : sockets[SocketSeq[j]] # "fresh"
    /\ IF ~CanAddPlayer(players) /\ GetPlayer(players, s) = NoPlayer
       THEN /\ sockets' = [sockets EXCEPT ![s] = "closed"]
            /\ Done(currentRound, <<EvConnectionRejected(s)>>, hist)
       ELSE /\ sockets' = [sockets EXCEPT ![s] = "open"]
            /\ Done(currentRound, <<>>, hist)
    /\ UNCHANGED <<players, aiPlayer, nextId, calls>>

(* socket.on('register_player') *)

RegisterPlayer(s, playerName) ==
    /\ sockets[s] = "open"
    /\ IF GetPlayer(players, s) = NoPlayer
       THEN LET added == AddPlayer(players, s, playerName)
                first == Len(GetAllPlayers(added)) = 1
                ps == IF first THEN InitializeAIPlayer(added) ELSE added
            IN /\ players' = ps
               /\ aiPlayer' = IF first THEN NewAIPlayer ELSE aiPlayer
               /\ Done(currentRound,
                       (IF first THEN <<EvAIPlayerJoined(NewAIPlayer)>> ELSE <<>>)
                       \o <<EvPlayersUpdate(ps), EvRegistrationSuccessful(s, playerName)>>,
                       hist)
       ELSE /\ UNCHANGED <<players, aiPlayer>>
            /\ Done(currentRound, <<>>, hist)
    /\ UNCHANGED <<sockets, nextId, calls>>

(* socket.on('start_round'), up to the AI request; without an AI player,   *)
(* all of it                                                               *)

StartRound(s, prompt) ==
    /\ sockets[s] = "open"
    /\ nextId <= MaxRounds
    /\ nextId' = nextId + 1
    /\ IF HasAIPlayer(aiPlayer)
       THEN /\ Cardinality(calls) < MaxInFlight
            /\ calls' = calls \cup
                  {[sock |-> s, roundId |-> nextId, prompt |-> prompt, stage |-> "fetch"]}
            /\ Done(NewRound(nextId, prompt), <<>>, hist)
       ELSE /\ calls' = calls
            /\ Done(NewRound(nextId, prompt), <<EvRoundStarted(nextId, prompt)>>, hist)
    /\ UNCHANGED <<sockets, players, aiPlayer>>

(* The AI endpoint answers the request of call c (or the request fails):   *)
(* the rest of startNewRound and of the start_round handler                *)

AIReplies(c, o) ==
    /\ c \in calls
    /\ c.stage = "fetch"
    /\ calls' = calls \ {c}
    /\ LET got == GetResponse(o)
           ai == aiPlayer
           resp == [playerId |-> ai.id, playerName |-> ai.name,
                    response |-> got.value, isAI |-> TRUE]
           added == IF got.threw \/ ai = NoPlayer
                    THEN [threw |-> got.threw, round |-> currentRound]
                    ELSE AddResponse(currentRound, ai.id, resp)
       IN IF added.threw
          THEN Done(added.round, <<EvError(c.sock, "Failed to start round")>>, hist)
          ELSE Done(added.round, <<EvRoundStarted(c.roundId, c.prompt)>>,
                    IF ai = NoPlayer THEN hist ELSE Accept(hist, currentRound, resp))
    /\ UNCHANGED <<sockets, players, aiPlayer, nextId>>

(* The AI endpoint keeps the connection of call c open and never answers:  *)
(* the request has no timeout, so the call stays suspended                 *)

AIStalls(c) ==
    /\ c \in calls
    /\ c.stage = "fetch"
    /\ calls' = (calls \ {c}) \cup {[c EXCEPT !.stage = "stalled"]}
    /\ Done(currentRound, <<>>, hist)
    /\ UNCHANGED <<sockets, players, aiPlayer, nextId>>

(* socket.on('submit_response') *)

SubmitResponse(s, text) ==
    /\ sockets[s] = "open"
    /\ LET player == GetPlayer(players, s)
           resp == NewResponse(player, text)
           added == AddResponse(currentRound, player.id, resp)
       IN IF player = NoPlayer
          THEN Done(currentRound, <<>>, hist)
          ELSE IF added.threw
          THEN Done(currentRound, <<EvError(s, "Failed to submit response")>>, hist)
          ELSE Done(added.round, <<EvResponseReceived(player)>>
                       \o (IF CheckRoundComplete(added.round, players)
                           THEN <<EvResponsesRevealed(added.round)>>
                           ELSE <<>>),
                       Accept(hist, currentRound, resp))
    /\ UNCHANGED <<sockets, players, aiPlayer, nextId, calls>>

(* socket.on('submit_vote') *)

SubmitVote(s, votedPlayerId, isAIGuess) ==
    /\ sockets[s] = "open"
    /\ LET vote == NewVote(s, votedPlayerId, isAIGuess)
           added == AddVote(currentRound, vote)
           voted == AcceptVote(hist, currentRound, vote)
           result == CompleteRound(added.round, aiPlayer)
       IN IF added.threw
          THEN Done(currentRound, <<EvError(s, "Failed to submit vote")>>, hist)
          ELSE IF ~CheckVotingComplete(added.round, players)
          THEN Done(added.round, <<>>, voted)
          ELSE IF result.threw
          THEN Done(result.round, <<EvError(s, "Failed to submit vote")>>, voted)
          ELSE IF result.isNull
          THEN Done(result.round, <<>>, voted)
          ELSE Done(ResetRound(result.round), <<EvGameComplete(result.summary)>>, voted)
    /\ UNCHANGED <<sockets, players, aiPlayer, nextId, calls>>

(* socket.on('disconnect') *)

Disconnect(s) ==
    /\ sockets[s] = "open"
    /\ sockets' = [sockets EXCEPT ![s] = "closed"]
    /\ LET player == GetPlayer(players, s)
       IN IF player # NoPlayer /\ ~player.isAI
          THEN /\ players' = RemovePlayer(players, s)
               /\ Done(currentRound, <<EvPlayerLeft(s), EvPlayersUpdate(RemovePlayer(players, s))>>, hist)
          ELSE /\ players' = players
               /\ Done(currentRound, <<>>, hist)
    /\ UNCHANGED <<aiPlayer, nextId, calls>>

-----------------------------------------------------------------------------

Next ==
    \/ \E s \in DOMAIN sockets : Connect(s)
    \/ \E s \in DOMAIN sockets, n \in Names : RegisterPlayer(s, n)
    \/ \E s \in DOMAIN sockets, p \in Prompts : StartRound(s, p)
    \/ \E c \in calls, o \in Outcomes : AIReplies(c, o)
    \/ \E s \in DOMAIN sockets, t \in Texts : SubmitResponse(s, t)
    \/ \E s \in DOMAIN sockets, v \in VoteTargets, g \in Guesses : SubmitVote(s, v, g)
    \/ \E s \in DOMAIN sockets : Disconnect(s)

\* No fairness: a client need not send anything, and a suspended call need
\* not be resumed.
Spec == Init /\ [][Next]_vars

\* The same server where an AI endpoint that is going to answer does answer
\* in the end, and one that is not is marked (AIStalls).  Client events stay
\* unforced.
NextFair ==
    \/ Next
    \/ \E c \in calls : AIStalls(c)

FairSpec ==
    /\ Init
    /\ [][NextFair]_vars
    /\ \A r \in RoundIds : WF_vars(\E c \in calls, o \in Outcomes : c.roundId = r /\ AIReplies(c, o))

-----------------------------------------------------------------------------
(* Helpers of the properties *)

\* the AI request of the current round has not settled yet
FetchInFlight == \E c \in calls : c.roundId = currentRound.roundId

\* a round is in the slot
Active == currentRound # NoRound

\* the events of the last handler run of the given type
EventsOf(type) == {i \in 1..Len(out) : out[i].type = type}

-----------------------------------------------------------------------------
(* C1.  While the AI request of the current round is in flight, no          *)
(* response has been accepted into that round: the AI's response is the     *)
(* first one recorded in a round started with an AI player.                 *)

C1_NoResponseBeforeAIResponse ==
    (Active /\ FetchInFlight) => MapSize(currentRound.responses) = 0

(* C2.  A round in the slot is never replaced by another round: start_round *)
(* on an active round fails with an error and leaves the round as it is.    *)

C2_ActiveRoundNotReplaced ==
    [][(Active /\ currentRound' # NoRound) =>
          /\ currentRound'.roundId = currentRound.roundId
          /\ currentRound'.prompt = currentRound.prompt]_vars

(* C3.  While the response phase of the round is not complete, no vote is   *)
(* recorded in it and none completes it.                                    *)

C3_NoVoteBeforeResponsesComplete ==
    [][(Active /\ ~CheckRoundComplete(currentRound, players)) =>
          /\ currentRound'.roundId = currentRound.roundId =>
                currentRound'.votes = currentRound.votes
          /\ ~Emitted(out', "game_complete")]_vars

(* C4.  The events of a round come in the order of its phases: its          *)
(* responses_revealed is emitted only after its round_started, and its      *)
(* game_complete only after its responses_revealed.                         *)

C4_PhaseOrder ==
    /\ hist.revealed => hist.started
    /\ hist.complete > 0 => hist.revealed

(* C5.  Once the response phase of a round is complete, its                 *)
(* responses_revealed is emitted in the end; once its voting phase is       *)
(* complete, its game_complete is.  (With a human player registered: the    *)
(* checks of a round without players compare 0 with 0.)                     *)

HumanRegistered == \E i \in 1..Len(players) : ~players[i].v.isAI

C5_CompletionAnnounced ==
    /\ \A r \in RoundIds :
          (currentRound.roundId = r /\ HumanRegistered
              /\ CheckRoundComplete(currentRound, players))
          ~> (hist.roundId = r /\ hist.revealed)
    /\ \A r \in RoundIds :
          (currentRound.roundId = r /\ HumanRegistered
              /\ CheckVotingComplete(currentRound, players))
          ~> (hist.roundId = r /\ hist.complete > 0)

(* C6.  game_complete is emitted at most once for a roundId.  It is emitted *)
(* for the round in the slot, in the handler run that marks it complete and *)
(* empties the slot; a round is never left in the slot marked complete; and *)
(* a round put into the slot has an id that was never used before.          *)

C6_CompletedOnce ==
    /\ [](/\ hist.complete <= 1
          /\ Cardinality(EventsOf("game_complete")) <= 1
          /\ Active => (~currentRound.isComplete /\ currentRound.roundId < nextId))
    /\ [][/\ \A i \in 1..Len(out') :
                out'[i].type = "game_complete" =>
                   /\ Active
                   /\ out'[i].roundId = currentRound.roundId
                   /\ currentRound' = NoRound
          /\ (currentRound' # NoRound /\ currentRound'.roundId # currentRound.roundId) =>
                (currentRound'.roundId = nextId /\ nextId' = nextId + 1)
          /\ nextId' >= nextId]_vars

\* the second round of a run is completed
C6_Witness ==
    /\ hist.complete = 1
    /\ \E i \in 1..Len(out) : out[i].type = "game_complete" /\ out[i].roundId = 2

(* C7.  getResponse resolves to a string whatever the AI endpoint does, and *)
(* a start_round whose round is still in the slot when the request settles  *)
(* ends with round_started, the AI player's response stored under the AI    *)
(* player's id, and no error.                                               *)

C7_AIFailureAbsorbed ==
    /\ [](\A o \in Outcomes : ~GetResponse(o).threw /\ GetResponse(o).value \in STRING)
    /\ [][\A c \in calls :
            ((\A d \in calls' : d.roundId # c.roundId) /\ currentRound.roundId = c.roundId) =>
               /\ out' = <<EvRoundStarted(c.roundId, c.prompt)>>
               /\ currentRound'.roundId = c.roundId
               /\ MapHas(currentRound'.responses, aiPlayer.id)
               /\ LET r == MapGet(currentRound'.responses, aiPlayer.id, NoPlayer)
                  IN r.playerId = aiPlayer.id /\ r.isAI /\ r.response \in STRING]_vars

\* a round started with the fallback as the AI player's response
C7_Witness ==
    /\ Len(out) = 1 /\ out[1].type = "round_started"
    /\ out[1].roundId = currentRound.roundId
    /\ MapHas(currentRound.responses, AI_ID)
    /\ MapGet(currentRound.responses, AI_ID, NoPlayer).response = FALLBACK

(* C8.  Every start_round call finishes: a call suspended in the AI request *)
(* is resumed in the end.                                                   *)

C8_StartRoundFinishes ==
    \A r \in RoundIds :
        (\E c \in calls : c.roundId = r) ~> (\A c \in calls : c.roundId # r)

(* C9.  The summary of a completed round holds every response that was      *)
(* accepted into the round, unmodified.  (Stated for the rounds whose        *)
(* round_started and responses_revealed were emitted before they            *)
(* completed.)                                                              *)

Range(q) == {q[i] : i \in 1..Len(q)}

C9_SummaryHoldsEverySubmission ==
    \A i \in EventsOf("game_complete") :
        (hist.started /\ hist.revealed) =>
        /\ out[i].roundId = hist.roundId
        /\ ~hist.lost
        /\ hist.last \subseteq Range(out[i].summary.responses)

(* C9, amended.  The summary of a completed round holds exactly the latest  *)
(* response accepted into the round from every player (the AI player        *)
(* included when its response was recorded in that round), unmodified and   *)
(* once each.                                                               *)

C9_SummaryHoldsLatestSubmissions ==
    \A i \in EventsOf("game_complete") :
        /\ out[i].roundId = hist.roundId
        /\ Range(out[i].summary.responses) = hist.last
        /\ Len(out[i].summary.responses) = Cardinality(hist.last)

\* a round completes after a player replaced a response, with the AI
\* player's response among the responses
C9_Witness ==
    \E i \in EventsOf("game_complete") :
        /\ hist.lost
        /\ Len(out[i].summary.responses) >= 2
        /\ \E r \in Range(out[i].summary.responses) : r.isAI

(* C10.  The responses of the round hold one entry per player id, the votes *)
(* one entry per voter id, and the entry of a submitter is the last         *)
(* response (vote) accepted from that submitter in the round.               *)

UniqueKeys(m) == \A i, j \in 1..Len(m) : m[i].k = m[j].k => i = j

C10_LastWriteWins ==
    Active =>
        /\ hist.roundId = currentRound.roundId
        /\ UniqueKeys(currentRound.responses)
        /\ UniqueKeys(currentRound.votes)
        /\ \A i \in 1..Len(currentRound.responses) :
              currentRound.responses[i].k = currentRound.responses[i].v.playerId
        /\ \A i \in 1..Len(currentRound.votes) :
              currentRound.votes[i].k = currentRound.votes[i].v.voterId
        /\ Range(MapValues(currentRound.responses)) = hist.last
        /\ Range(MapValues(currentRound.votes)) = hist.votes

\* a player has replaced a response while another player's response and a
\* vote are stored
C10_Witness ==
    /\ Active
    /\ hist.lost
    /\ MapSize(currentRound.responses) >= 2
    /\ MapSize(currentRound.votes) >= 1

-----------------------------------------------------------------------------
(* Counts of the properties, taken on the state itself *)

\* the players that have a response (a vote) in the round in the slot
Responders == {currentRound.responses[i].k : i \in 1..Len(currentRound.responses)}
Voters == {currentRound.votes[i].k : i \in 1..Len(currentRound.votes)}

\* the registered players, and the ones that are not the AI player
Registered == {players[i].k : i \in 1..Len(players)}
Humans == {players[i].k : i \in {j \in 1..Len(players) : ~players[j].v.isAI}}

(* C11, as stated.  checkRoundComplete is true exactly when the number of    *)
(* distinct responses of the round equals the number of registered players  *)
(* (AI player included), and submit_response reveals the responses exactly  *)
(* then.                                                                    *)

C11_CompleteWhenEqual ==
    /\ CheckRoundComplete(currentRound, players) <=>
          (Active /\ Cardinality(Responders) = Cardinality(Registered))
    /\ Emitted(out, "response_received") =>
          (Emitted(out, "responses_revealed") <=>
              Cardinality(Responders) = Cardinality(Registered))

(* C11, amended.  checkRoundComplete is true exactly when a round is in the *)
(* slot and the number of distinct responses in it is at least the number   *)
(* of registered players (AI player included): after a player who responded *)
(* has left, the responses outnumber the players and the check is still     *)
(* true.  submit_response reveals the responses exactly then.               *)

C11_CompleteWhenEnough ==
    /\ CheckRoundComplete(currentRound, players) <=>
          (Active /\ Cardinality(Responders) >= Cardinality(Registered))
    /\ Emitted(out, "response_received") =>
          (Emitted(out, "responses_revealed") <=>
              Cardinality(Responders) >= Cardinality(Registered))

\* a response is accepted and revealed in a round that holds more responses
\* than there are players: a responder has left
C11_Witness ==
    /\ Active
    /\ Emitted(out, "response_received") /\ Emitted(out, "responses_revealed")
    /\ Cardinality(Responders) > Cardinality(Registered)
    /\ HasAIPlayer(aiPlayer) /\ AI_ID \in Responders

(* C12.  checkVotingComplete is true exactly when a round is in the slot    *)
(* and the number of distinct votes in it is at least the number of         *)
(* registered players that are not the AI player; the AI player does not    *)
(* count.  submit_vote goes on to complete the round exactly then.          *)

C12_VotingCompleteWhenHumansVoted ==
    /\ [](CheckVotingComplete(currentRound, players) <=>
             (Active /\ Cardinality(Voters) >= Cardinality(Humans)))
    /\ [][(Active /\ currentRound'.roundId = currentRound.roundId
              /\ currentRound'.votes # currentRound.votes
              /\ ~Emitted(out', "error")) =>
             Cardinality(Voters') < Cardinality(Humans')]_vars
    /\ [](Emitted(out, "game_complete") => Cardinality(hist.votes) >= Cardinality(Humans))

\* the AI player is registered, and the votes are as many as the humans but
\* fewer than the players
C12_Witness ==
    /\ Active
    /\ HasAIPlayer(aiPlayer) /\ AI_ID \in Registered
    /\ Cardinality(Humans) >= 1
    /\ Cardinality(Voters) = Cardinality(Humans)
    /\ CheckVotingComplete(currentRound, players)

-----------------------------------------------------------------------------
(* getVoteResults on its own: the votes of the round are drawn from every   *)
(* map of votes three voters can leave behind, among four registered        *)
(* humans (so that three votes do not complete the round), or in a round    *)
(* started before anybody registered; the method is then called on it.      *)

VoterSeq == <<"v1", "v2", "v3">>
VoterIds == {VoterSeq[i] : i \in DOMAIN VoterSeq}
\* the AI player, an id that is not registered, and a registered human
TallyTargets == {AI_ID, "p2", "v1"}
TallyVotes == {NewVote(v, t, g) : v \in VoterIds, t \in TallyTargets, g \in BOOLEAN}

\* the maps of votes with one entry per voter, in every insertion order
TallyMaps ==
    UNION {{[i \in 1..n |-> [k |-> f[i].voterId, v |-> f[i]]] :
               f \in {g \in [1..n -> TallyVotes] :
                         \A i, j \in 1..n : g[i].voterId = g[j].voterId => i = j}} :
           n \in 0..Len(VoterSeq)}

TallyPlayers ==
    InitializeAIPlayer(
        AddPlayer(AddPlayer(AddPlayer(AddPlayer(<<>>, "p1", "Ann"), "v1", "Ann"),
                            "v2", "Ann"), "v3", "Ann"))

TallyInit ==
    /\ sockets = [s \in VoterIds \cup {"p1"} |-> "open"]
    /\ aiPlayer \in {NoPlayer, NewAIPlayer}
    /\ players = IF aiPlayer = NoPlayer THEN <<>> ELSE TallyPlayers
    /\ currentRound \in {NoRound} \cup
          {[NewRound(1, "food") EXCEPT !.votes = m] : m \in TallyMaps}
    /\ nextId = 2
    /\ calls = {}
    /\ out = <<>>
    /\ hist = NoHist
    /\ ret = NoRet

GetVoteResultsCall ==
    /\ LET r == GetVoteResults(currentRound, aiPlayer)
       IN ret' = Returned("getVoteResults", r.threw, r.value)
    /\ UNCHANGED <<sockets, players, aiPlayer, currentRound, nextId, calls, out, hist>>

TallyNext == GetVoteResultsCall

TallySpec == TallyInit /\ [][TallyNext]_vars

\* the value of the votes map as a set of votes
VoteSet == {currentRound.votes[i].v : i \in 1..Len(currentRound.votes)}

\* the votes of the example
ExampleVotes ==
    {NewVote("v1", AI_ID, TRUE), NewVote("v2", "p2", FALSE), NewVote("v3", AI_ID, FALSE)}

(* C13.  getVoteResults returns total = the number of votes of the round    *)
(* and correct = the number of votes whose isAIGuess flag equals            *)
(* (votedPlayerId = the AI player's id), whoever the votes name; the votes  *)
(* (v1, ai-player, true), (v2, p2, false), (v3, ai-player, false) give      *)
(* correct = 2 and total = 3.                                               *)

C13_VoteResultsCountAgreement ==
    (ret.op = "getVoteResults" /\ ~ret.threw) =>
        /\ ret.value.total = Cardinality(VoteSet)
        /\ ret.value.correct =
              Cardinality({v \in VoteSet : v.isAIGuess <=> (v.votedPlayerId = AI_ID)})
        /\ VoteSet = ExampleVotes => (ret.value.correct = 2 /\ ret.value.total = 3)

\* the votes of the example were counted; p2, named by one of them, is not
\* registered
C13_Witness ==
    /\ ret.op = "getVoteResults" /\ ~ret.threw
    /\ GetPlayer(players, "p2") = NoPlayer
    /\ VoteSet = ExampleVotes
    /\ ret.value.correct = 2 /\ ret.value.total = 3

-----------------------------------------------------------------------------
(* The methods of PlayerManager and GameManager called directly, one call   *)
(* after the other (every call is awaited before the next one is made).     *)

ApiIds == {"p1"}
ApiTexts == {"a"}
ApiVotes == {NewVote("p1", AI_ID, g) : g \in BOOLEAN}

AddPlayerCall(id, name) ==
    /\ players' = AddPlayer(players, id, name)
    /\ ret' = Returned("addPlayer", FALSE, NewPlayer(id, name))
    /\ UNCHANGED <<sockets, aiPlayer, currentRound, nextId, calls, out, hist>>

InitializeAIPlayerCall ==
    /\ players' = InitializeAIPlayer(players)
    /\ aiPlayer' = NewAIPlayer
    /\ ret' = Returned("initializeAIPlayer", FALSE, NewAIPlayer)
    /\ UNCHANGED <<sockets, currentRound, nextId, calls, out, hist>>

RemovePlayerCall(id) ==
    /\ players' = RemovePlayer(players, id)
    /\ ret' = Returned("removePlayer", FALSE, NoValue)
    /\ UNCHANGED <<sockets, aiPlayer, currentRound, nextId, calls, out, hist>>

\* the object in the map under the AI player's id is the object aiPlayer
\* refers to: a write to one is a write to the other
UpdatePlayerStatusCall(id, isReady) ==
    /\ players' = UpdatePlayerStatus(players, id, isReady)
    /\ aiPlayer' = IF HasAIPlayer(aiPlayer) /\ id = aiPlayer.id /\ MapHas(players, id)
                   THEN [aiPlayer EXCEPT !.isReady = isReady]
                   ELSE aiPlayer
    /\ ret' = Returned("updatePlayerStatus", FALSE, NoValue)
    /\ UNCHANGED <<sockets, currentRound, nextId, calls, out, hist>>

\* startNewRound awaited to its end: o is what the AI endpoint did
StartNewRoundCall(prompt, o) ==
    /\ nextId <= MaxRounds
    /\ nextId' = nextId + 1
    /\ LET round == NewRound(nextId, prompt)
           got == GetResponse(o)
           resp == [playerId |-> aiPlayer.id, playerName |-> aiPlayer.name,
                    response |-> got.value, isAI |-> TRUE]
           added == IF ~HasAIPlayer(aiPlayer) THEN [threw |-> FALSE, round |-> round]
                    ELSE IF got.threw THEN [threw |-> TRUE, round |-> round]
                    ELSE AddResponse(round, aiPlayer.id, resp)
       IN /\ currentRound' = added.round
          /\ ret' = Returned("startNewRound", added.threw, [roundId |-> nextId])
    /\ UNCHANGED <<sockets, players, aiPlayer, calls, out, hist>>

AddResponseCall(id, text) ==
    /\ LET r == AddResponse(currentRound, id, NewResponse(NewPlayer(id, "Ann"), text))
       IN /\ currentRound' = r.round
          /\ ret' = Returned("addResponse", r.threw, NoValue)
    /\ UNCHANGED <<sockets, players, aiPlayer, nextId, calls, out, hist>>

AddVoteCall(vote) ==
    /\ LET r == AddVote(currentRound, vote)
       IN /\ currentRound' = r.round
          /\ ret' = Returned("addVote", r.threw, NoValue)
    /\ UNCHANGED <<sockets, players, aiPlayer, nextId, calls, out, hist>>

CompleteRoundCall ==
    /\ LET r == CompleteRound(currentRound, aiPlayer)
       IN /\ currentRound' = r.round
          /\ ret' = Returned("completeRound", r.threw,
                             IF r.threw \/ r.isNull
                             THEN [isNull |-> r.isNull]
                             ELSE [isNull |-> FALSE, summary |-> r.summary])
    /\ UNCHANGED <<sockets, players, aiPlayer, nextId, calls, out, hist>>

ResetRoundCall ==
    /\ currentRound' = ResetRound(currentRound)
    /\ ret' = Returned("resetRound", FALSE, NoValue)
    /\ UNCHANGED <<sockets, players, aiPlayer, nextId, calls, out, hist>>

ApiNext ==
    \/ \E id \in ApiIds, n \in Names : AddPlayerCall(id, n)
    \/ InitializeAIPlayerCall
    \/ \E id \in ApiIds : RemovePlayerCall(id)
    \/ \E id \in ApiIds \cup {AI_ID}, b \in BOOLEAN : UpdatePlayerStatusCall(id, b)
    \/ \E p \in Prompts, o \in Outcomes : StartNewRoundCall(p, o)
    \/ \E id \in ApiIds, t \in ApiTexts : AddResponseCall(id, t)
    \/ \E v \in ApiVotes : AddVoteCall(v)
    \/ CompleteRoundCall
    \/ ResetRoundCall

ApiSpec == Init /\ [][ApiNext]_vars

-----------------------------------------------------------------------------
\* the summary of the round in the slot, counted on the state
SummaryOfSlot ==
    [roundId |-> currentRound.roundId, prompt |-> currentRound.prompt,
     responses |-> MapValues(currentRound.responses),
     voteResults |->
        [correct |-> Cardinality({i \in 1..Len(currentRound.votes) :
                        currentRound.votes[i].v.isAIGuess <=>
                           (currentRound.votes[i].v.votedPlayerId = aiPlayer.id)}),
         total |-> Cardinality(Voters),
         aiPlayer |-> aiPlayer.name]]

(* C14, as stated.  completeRound returns null when no round is in the slot; *)
(* with a round in the slot, with or without an AI player, it marks the     *)
(* round complete and returns the summary of the round.                     *)

C14_CompleteRoundSummarisesAnyRound ==
    ret.op = "completeRound" =>
        IF currentRound = NoRound
        THEN ~ret.threw /\ ret.value.isNull
        ELSE /\ ~ret.threw
             /\ ~ret.value.isNull
             /\ currentRound.isComplete
             /\ ret.value.summary = SummaryOfSlot

(* C14, amended.  completeRound returns null exactly when no round is in    *)
(* the slot.  With a round in the slot and an AI player it marks the round  *)
(* complete, changes nothing else of it, and returns the summary {roundId,  *)
(* prompt, responses, voteResults} of the round; with a round in the slot   *)
(* and no AI player it throws 'No AI player found' and leaves the round as  *)
(* it was, not marked complete.                                             *)

C14_CompleteRoundNeedsAIPlayer ==
    /\ [](ret.op = "completeRound" =>
            /\ (currentRound = NoRound) <=> (~ret.threw /\ ret.value.isNull)
            /\ (Active /\ HasAIPlayer(aiPlayer)) =>
                  /\ ~ret.threw
                  /\ currentRound.isComplete
                  /\ ret.value.summary = SummaryOfSlot
            /\ (Active /\ ~HasAIPlayer(aiPlayer)) => ret.threw)
    /\ [][ret'.op = "completeRound" =>
            /\ ret'.threw => currentRound' = currentRound
            /\ (~ret'.threw /\ Active) =>
                  currentRound' = [currentRound EXCEPT !.isComplete = TRUE]]_vars

\* a round with the AI player's and a human's response and a vote was
\* completed by a direct call
C14_Witness ==
    /\ ret.op = "completeRound" /\ ~ret.threw /\ ~ret.value.isNull
    /\ currentRound.isComplete
    /\ Len(ret.value.summary.responses) = 2
    /\ ret.value.summary.voteResults.total = 1

(* C15.  A completeRound called right after a completeRound that returned a *)
(* summary (no resetRound and no other call in between) does not fail and   *)
(* returns a summary with the same roundId, prompt, responses and           *)
(* voteResults.                                                             *)

C15_SecondCompleteRoundSameSummary ==
    [][(/\ ret.op = "completeRound" /\ ~ret.threw /\ ~ret.value.isNull
        /\ ret'.op = "completeRound") =>
          /\ ~ret'.threw
          /\ ~ret'.value.isNull
          /\ ret'.value.summary = ret.value.summary
          /\ currentRound' = currentRound]_vars

\* completeRound was called twice in a row on a round with responses and a
\* vote, and returned a summary
C15_Witness ==
    /\ ret.op = "completeRound" /\ ret.n = 2
    /\ ~ret.threw /\ ~ret.value.isNull
    /\ Len(ret.value.summary.responses) = 2
    /\ ret.value.summary.voteResults.total = 1

(* C16.  resetRound leaves no round in the slot, whatever was there.  While *)
(* no round is in the slot completeRound returns null, both completion      *)
(* checks are false and addResponse and addVote throw; only startNewRound   *)
(* puts a round into the slot again.                                        *)

C16_ResetRoundToNoRound ==
    /\ [](ret.op = "resetRound" => currentRound = NoRound)
    /\ [](currentRound = NoRound =>
            /\ CompleteRound(currentRound, aiPlayer).isNull
            /\ ~CompleteRound(currentRound, aiPlayer).threw
            /\ ~CheckRoundComplete(currentRound, players)
            /\ ~CheckVotingComplete(currentRound, players))
    /\ [][currentRound = NoRound =>
            /\ currentRound' # NoRound => ret'.op = "startNewRound"
            /\ ret'.op = "completeRound" => (~ret'.threw /\ ret'.value.isNull)
            /\ ret'.op \in {"addResponse", "addVote"} =>
                  (ret'.threw /\ currentRound' = NoRound)]_vars

\* a round was completed and reset, and the vote that came next was refused
C16_Witness ==
    /\ currentRound = NoRound
    /\ nextId > 1
    /\ ret.op = "addVote" /\ ret.threw

(* C20.  initializeAIPlayer called when the AI player exists returns the    *)
(* existing player and leaves the registry as it is, with whatever was      *)
(* written to that player's fields since it was created.                    *)

C20_InitializeAIPlayerIdempotent ==
    [][(ret'.op = "initializeAIPlayer" /\ HasAIPlayer(aiPlayer)) =>
          /\ players' = players
          /\ aiPlayer' = aiPlayer
          /\ ret'.value = aiPlayer]_vars

-----------------------------------------------------------------------------
\* submit_response answered the socket with its error
ResponseRefused(o) ==
    \E i \in 1..Len(o) : o[i].type = "error" /\ o[i].message = "Failed to submit response"

(* C17.  addResponse throws when no round is in the slot and when the round *)
(* in the slot is complete, and returns the round as it was.  A handler run *)
(* that starts without a round that takes responses emits no                *)
(* response_received and no responses_revealed, and leaves the slot as it   *)
(* is unless it starts a new round; a submit_response that is refused       *)
(* answers with its error only and leaves the slot, responses and votes     *)
(* included, unchanged.                                                     *)

C17_RefusedResponseChangesNothing ==
    /\ [](\A s \in DOMAIN sockets, t \in Texts :
            LET r == NewResponse(GetPlayer(players, s), t)
                complete == [currentRound EXCEPT !.isComplete = TRUE]
            IN /\ AddResponse(NoRound, s, r) = [threw |-> TRUE, round |-> NoRound]
               /\ AddResponse(complete, s, r) = [threw |-> TRUE, round |-> complete])
    /\ [][(~Active \/ currentRound.isComplete) =>
            /\ ~Emitted(out', "response_received")
            /\ ~Emitted(out', "responses_revealed")
            /\ \/ currentRound' = currentRound
               \/ \E p \in Prompts : currentRound' = NewRound(nextId, p)]_vars
    /\ [][ResponseRefused(out') =>
            /\ ~Active \/ currentRound.isComplete
            /\ currentRound' = currentRound
            /\ Len(out') = 1]_vars

\* a registered player's submit_response was refused after a round had been
\* completed and reset
C17_Witness ==
    /\ ResponseRefused(out)
    /\ ~Active
    /\ nextId > 1
    /\ \E i \in 1..Len(out) : GetPlayer(players, out[i].to) # NoPlayer

-----------------------------------------------------------------------------
(* The server with the registry one short of its capacity: fifteen humans   *)
(* have registered (the first of them brought the AI player in) and are     *)
(* idle from here on; the sockets of SocketSeq have not connected yet.      *)

IdleId(i) == "h" \o ToString(i)

IdlePlayers ==
    [i \in 1..MAX_REAL_PLAYERS |->
        IF i = 2 THEN [k |-> AI_ID, v |-> NewAIPlayer]
        ELSE LET id == IdleId(IF i = 1 THEN 1 ELSE i - 1)
             IN [k |-> id, v |-> NewPlayer(id, "Ann")]]

CapInit ==
    /\ sockets = [s \in SocketIds |-> "fresh"]
    /\ players = IdlePlayers
    /\ aiPlayer = NewAIPlayer
    /\ currentRound = NoRound
    /\ nextId = 1
    /\ calls = {}
    /\ out = <<>>
    /\ hist = NoHist
    /\ ret = NoRet

CapSpec == CapInit /\ [][Next]_vars

(* C18.  The registry never holds more than 16 players that are not the AI  *)
(* player, whichever way connections, registrations and disconnects         *)
(* interleave.                                                              *)

C18_AtMostSixteenHumans == Cardinality(Humans) <= MAX_REAL_PLAYERS

\* the registered players that are marked as the AI
AIEntries == {i \in 1..Len(players) : players[i].v.isAI}

(* C19.  At most one registered player has isAI set.  There is none before  *)
(* the first human registers; the handler run of the first registration     *)
(* creates it; from then on getAIPlayer returns the same player with id     *)
(* 'ai-player' in every state, and that player is the one entry of          *)
(* getAllPlayers with isAI set.                                             *)

C19_OneAIPlayerFromFirstRegistration ==
    /\ [](Cardinality(AIEntries) <= 1)
    /\ [](~HasAIPlayer(aiPlayer) => players = <<>>)
    /\ [](HasAIPlayer(aiPlayer) =>
            /\ aiPlayer.id = AI_ID /\ aiPlayer.isAI
            /\ Cardinality(AIEntries) = 1
            /\ GetPlayer(players, AI_ID) = aiPlayer
            /\ aiPlayer \in Range(GetAllPlayers(players)))
    /\ [][HasAIPlayer(aiPlayer) => aiPlayer' = aiPlayer]_vars
    /\ [][(~HasAIPlayer(aiPlayer) /\ HasAIPlayer(aiPlayer')) =>
            /\ Emitted(out', "registration_successful")
            /\ Emitted(out', "ai_player_joined")
            /\ Cardinality(Humans') = 1]_vars

\* every human has left after a round was played, and the AI player is the
\* only player registered
C19_Witness ==
    /\ HasAIPlayer(aiPlayer)
    /\ Humans = {}
    /\ Registered = {AI_ID}
    /\ nextId > 1
    /\ \A s \in DOMAIN sockets : sockets[s] = "closed"

-----------------------------------------------------------------------------
\* socket s disconnects in this step (a rejected connection goes from fresh
\* to closed)
Leaves(s) == sockets[s] = "open" /\ sockets'[s] = "closed"

(* C21.  A disconnect takes out of the registry the record of the           *)
(* disconnecting human and nothing else: the other records keep their       *)
(* values and their order, the AI player stays, and the round in the slot,  *)
(* its responses and votes included, is as it was.  The disconnect of a     *)
(* socket that is not registered changes nothing of it and emits nothing.   *)

C21_DisconnectRemovesOnlyLeaver ==
    [][\A s \in DOMAIN sockets : Leaves(s) =>
          /\ \A i \in 1..Len(players') : players'[i].k # s
          /\ \A i \in 1..Len(players) :
                players[i].k # s =>
                   \E j \in 1..Len(players') :
                      /\ players'[j] = players[i]
                      /\ j = Cardinality({h \in 1..i : players[h].k # s})
          /\ Len(players') = Cardinality({h \in 1..Len(players) : players[h].k # s})
          /\ aiPlayer' = aiPlayer
          /\ HasAIPlayer(aiPlayer) => GetPlayer(players', AI_ID) = aiPlayer
          /\ currentRound' = currentRound
          /\ calls' = calls /\ nextId' = nextId
          /\ IF GetPlayer(players, s) = NoPlayer
             THEN players' = players /\ out' = <<>>
             ELSE out' = <<EvPlayerLeft(s), EvPlayersUpdate(players')>>]_vars

\* a human who responded has left a round that holds responses and a vote,
\* with another human and the AI player still registered
C21_Witness ==
    /\ Len(out) = 2 /\ out[1].type = "player_left"
    /\ Active
    /\ out[1].id \in Responders
    /\ Cardinality(Voters) >= 1
    /\ Cardinality(Humans) >= 1
    /\ AI_ID \in Registered

-----------------------------------------------------------------------------
\* the calls that settle in this step
Settled == calls \ calls'

(* C22.  What a GameManager method throws inside start_round,               *)
(* submit_response or submit_vote ends in the handler's catch: the run      *)
(* emits one 'error', to the socket that sent the event and to nobody       *)
(* else, and changes neither the registry nor the connections.  This holds  *)
(* for the addResponse that throws after the AI request has settled.  The   *)
(* server goes on: after an error every open socket's events are handled.   *)

C22_ExceptionsBecomeErrorToCaller ==
    /\ [][\A i \in 1..Len(out') : out'[i].type = "error" =>
            /\ out' = <<out'[i]>>
            /\ out'[i].to \in DOMAIN sockets
            /\ players' = players /\ aiPlayer' = aiPlayer /\ sockets' = sockets
            /\ \/ /\ out'[i].message = "Failed to start round"
                  /\ \E c \in Settled : c.sock = out'[i].to
                  /\ currentRound' = currentRound
               \/ /\ out'[i].message = "Failed to submit response"
                  /\ sockets[out'[i].to] = "open"
                  /\ GetPlayer(players, out'[i].to) # NoPlayer
                  /\ currentRound' = currentRound
               \/ /\ out'[i].message = "Failed to submit vote"
                  /\ sockets[out'[i].to] = "open"
                  /\ \/ ~Active /\ currentRound' = currentRound
                     \/ /\ Active
                        /\ MapHas(currentRound'.votes, out'[i].to)
                        /\ CompleteRound(currentRound', aiPlayer).threw
                        /\ ~currentRound'.isComplete]_vars
    /\ [][\A c \in Settled :
            (HasAIPlayer(aiPlayer) /\ AddResponse(currentRound, aiPlayer.id, NoValue).threw) =>
               out' = <<EvError(c.sock, "Failed to start round")>>]_vars
    /\ [](Emitted(out, "error") =>
            \A s \in DOMAIN sockets : sockets[s] = "open" =>
               /\ ENABLED (\E t \in Texts : SubmitResponse(s, t))
               /\ ENABLED (\E v \in VoteTargets, g \in Guesses : SubmitVote(s, v, g))
               /\ ENABLED Disconnect(s))

\* the AI request of a start_round settled after its round had been
\* completed and reset: the addResponse that followed threw
C22_Witness ==
    /\ Len(out) = 1
    /\ out[1].type = "error" /\ out[1].message = "Failed to start round"
    /\ out[1].to \in DOMAIN sockets
    /\ ~Active /\ nextId > 1

-----------------------------------------------------------------------------
\* the voters whose vote was accepted into the round of the history
Voted == {v.voterId : v \in hist.votes}

(* C23.  game_complete is emitted for a round only when every human that is *)
(* registered at that moment has a vote recorded in the round: the votes of *)
(* sockets that never registered, or of players that have left, do not      *)
(* complete the voting while a registered human has not voted.              *)

C23_EveryRegisteredHumanVoted ==
    Emitted(out, "game_complete") => Humans \subseteq Voted

-----------------------------------------------------------------------------
(* C24.  When a handler run ends or suspends, the slot is empty or holds a  *)
(* round that is not complete: the run that completes a round emits its     *)
(* game_complete and empties the slot in the same step.  So no event is     *)
(* handled against a complete round: a response is refused only for want    *)
(* of a round, and every round a vote or a response goes into is open.      *)

C24_NoCompleteRoundBetweenHandlers ==
    /\ [](currentRound = NoRound \/ currentRound.isComplete = FALSE)
    /\ [][Emitted(out', "game_complete") <=>
             (Active /\ currentRound' = NoRound)]_vars
    /\ [][ResponseRefused(out') => ~Active]_vars
    /\ [][(Active /\ (Emitted(out', "response_received")
                        \/ currentRound'.votes # currentRound.votes)) =>
             ~currentRound.isComplete]_vars

\* the first round was completed by a vote, with two responses in its
\* summary, and the slot is empty
C24_Witness ==
    /\ currentRound = NoRound
    /\ \E i \in EventsOf("game_complete") :
          /\ out[i].roundId = 1
          /\ Len(out[i].summary.responses) = 2
          /\ out[i].summary.voteResults.total >= 1

====
